---- MODULE Spec2Model ----
(***************************************************************************)
(* Model of the jigsaw countdown engine, src/src/lib/jigsaw.ts             *)
(* (class JigsawPuzzle).                                                   *)
(*                                                                         *)
(* Numbers.  JavaScript numbers are modelled as exact rationals, records   *)
(* [n |-> numerator, d |-> denominator] in lowest terms with d > 0;        *)
(* [n |-> 1, d |-> 0] is +Infinity (totalDuration / 0 pieces).  Timestamps *)
(* and durations are whole milliseconds.                                   *)
(***************************************************************************)
EXTENDS Integers, Sequences, FiniteSets, TLC

\* ------------------------------------------------------------------ bounds
MaxPieces == 4          \* rows * cols <= MaxPieces, with one or two rows
MaxTicks == 10          \* frame timestamps are 0, Tick, ..., MaxTicks * Tick
MaxCtxFailures == 1     \* piece canvases whose getContext('2d') yields null
MaxSeeds == 2           \* Math.random() draw sequences
MaxRepeat == 1          \* frames served in a row without the timestamp advancing
MaxMinutes == 2         \* whole minutes of the remaining times given to updateTimer
MaxDim == 4             \* image and maximum box dimensions are 1..MaxDim

\* ------------------------------------------------------------ rationals
\* (functions rather than operators, so that an argument is evaluated once)
Rationals == [n : Int, d : Nat]

Abs == [x \in Int |-> IF x < 0 THEN -x ELSE x]

GCD[a \in Nat, b \in Nat] == IF b = 0 THEN a ELSE GCD[b, a % b]

Infinity == [n |-> 1, d |-> 0]

Rat == [n \in Int, d \in Int |->
          LET s == IF d < 0 THEN -1 ELSE 1
              g == GCD[Abs[n], Abs[d]]
          IN  IF d = 0 THEN Infinity
              ELSE [n |-> (s * n) \div g, d |-> (s * d) \div g]]

FromInt == [i \in Int |-> [n |-> i, d |-> 1]]

RatAdd == [a \in Rationals, b \in Rationals |-> Rat[a.n * b.d + b.n * a.d, a.d * b.d]]
RatSub == [a \in Rationals, b \in Rationals |-> Rat[a.n * b.d - b.n * a.d, a.d * b.d]]
RatMul == [a \in Rationals, b \in Rationals |-> Rat[a.n * b.n, a.d * b.d]]
RatDiv == [a \in Rationals, b \in Rationals |-> Rat[a.n * b.d, a.d * b.n]]
RatLess == [a \in Rationals, b \in Rationals |-> a.n * b.d < b.n * a.d]
RatLeq == [a \in Rationals, b \in Rationals |-> a.n * b.d <= b.n * a.d]
RatMin == [a \in Rationals, b \in Rationals |-> IF RatLess[b, a] THEN b ELSE a]
\* Math.floor; TLA+ \div rounds toward minus infinity
RatFloor == [a \in Rationals |-> a.n \div a.d]
\* assignment to HTMLCanvasElement.width/height (unsigned long): the
\* fraction is dropped; only non-negative values occur here
ToUnsignedLong == [a \in Rationals |-> a.n \div a.d]

\* --------------------------------------------------------------- inputs
\* caller-supplied options (JigsawOptions); all dimensions positive
GridSizes == {g \in (1..2) \X (1..MaxPieces) : g[1] * g[2] <= MaxPieces}
TotalDurations == {4000, 120000}
MaxRotations == {360}
Images == {[width |-> 16, height |-> 8]}
MaxBoxes == {[maxWidth |-> 8, maxHeight |-> 8]}

\* frame timestamps lie on a grid of eight ticks per run; the animation
\* starts one tick after the time origin, so that a frame timestamp can also
\* lie before animationStartTime
Tick(T) == T \div 8
FrameTimes(T) == {k * Tick(T) : k \in 0..MaxTicks}
StartTimes(T) == {Tick(T)}

\* the k-th value (k = 0, 1, ...) returned by Math.random() in [0, 1) under
\* draw sequence s
RandomDraw(s, k) == Rat[(7 * s + 5 * k + 3 * s * k) % 16, 16]

\* ---------------------------------------------------------------- state
VARIABLES
    options,              \* this.options (line 25), set by the constructor
    image,                \* this.image: NULL or [width, height]
    container,            \* children of this.container, in document order
    canvas,               \* this.canvas: NULL or [width, height]
    canvasDraws,          \* what this.ctx has drawn since the last clearRect
    pieces,               \* this.pieces (line 30)
    animationFrameId,     \* line 31
    animationStartTime,   \* line 32
    timerText,            \* this.timerElement.textContent, as characters
    solvingOrder,         \* line 34; piece indices are 0-based as in the code
    currentSolvingIndex,  \* line 35
    pieceMoveDuration,    \* line 36
    scaleFactor,          \* line 37
    pc,                   \* where init() stands
    initPromise,          \* state of the promise returned by init()
    steps,                \* the init steps executed so far, in order
    pendingFrames,        \* host: requestAnimationFrame handles not yet served
    lastFrameTime,        \* host: timestamp of the latest frame callback
    repeats,              \* host: frames served since the timestamp advanced
    runState,             \* "IDLE", "RUNNING" (line 197), "FINISHED" (line 237)
    destroyed,            \* destroy() has been called
    lastFrame,            \* what the latest animate() computed (history)
    progress,             \* per piece, the progress last computed at line 219
    constructorOutcome    \* how `new JigsawPuzzle(...)` ended for its caller

vars == <<options, image, container, canvas, canvasDraws, pieces,
          animationFrameId, animationStartTime, timerText, solvingOrder,
          currentSolvingIndex, pieceMoveDuration, scaleFactor, pc, initPromise,
          steps, pendingFrames, lastFrameTime, repeats, runState, destroyed,
          lastFrame, progress, constructorOutcome>>

\* requestAnimationFrame returns a handle that is in use nowhere.  Handles are
\* only ever compared for equality, so each new one is named by the least
\* positive number that is neither pending nor stored in animationFrameId.
requestAnimationFrame(inUse) ==
    CHOOSE h \in 1..(Cardinality(inUse) + 1) :
        h \notin inUse /\ \A k \in 1..(h - 1) : k \in inUse

\* ----------------------------------------------------- countdown formatter
Digit(d) ==
    CASE d = 0 -> "0" [] d = 1 -> "1" [] d = 2 -> "2" [] d = 3 -> "3"
      [] d = 4 -> "4" [] d = 5 -> "5" [] d = 6 -> "6" [] d = 7 -> "7"
      [] d = 8 -> "8" [] d = 9 -> "9"

\* Number.prototype.toString of a non-negative integer, one character each
RECURSIVE NatToString(_)
NatToString(k) ==
    IF k < 10 THEN <<Digit(k)>> ELSE Append(NatToString(k \div 10), Digit(k % 10))

\* (mutant) the seconds are written without padding
PadStart2_NoPad(s) == s

\* String.prototype.padStart(2, '0')
PadStart2(s) == IF Len(s) < 2 THEN <<"0">> \o s ELSE s

Max(a, b) == IF a > b THEN a ELSE b

\* (mutant) the text counts the elapsed time up instead of the rest down
TimerString_CountsUp(totalDuration, elapsed) ==
    LET shown == Max(0, elapsed)
        minutes == shown \div 60000
        seconds == (shown % 60000) \div 1000
    IN  NatToString(minutes) \o <<":">> \o PadStart2(NatToString(seconds))

\* the text updateTimer writes into the timer element
TimerString(totalDuration, elapsed) ==
    LET remaining == Max(0, totalDuration - elapsed)
        minutes == remaining \div 60000
        seconds == (remaining % 60000) \div 1000
    IN  NatToString(minutes) \o <<":">> \o PadStart2(NatToString(seconds))

\* -------------------------------------------------------------- geometry
\* (mutant) only the width is fitted into the box
calculateScaleFactor_WidthOnly(opts, img) ==
    LET widthRatio == Rat[opts.maxWidth, img.width]
    IN  RatMin[widthRatio, FromInt[1]]

calculateScaleFactor(opts, img) ==
    LET widthRatio == Rat[opts.maxWidth, img.width]
        heightRatio == Rat[opts.maxHeight, img.height]
    IN  RatMin[RatMin[widthRatio, heightRatio], FromInt[1]]

setupCanvas(img, sf) ==
    [width |-> ToUnsignedLong[RatMul[FromInt[img.width], sf]],
     height |-> ToUnsignedLong[RatMul[FromInt[img.height], sf]]]

\* (mutant) a piece is born solved
NewPiece_BornSolved(opts, img, sf, row, col) ==
    LET scaledPieceWidth == RatMul[Rat[img.width, opts.cols], sf]
        scaledPieceHeight == RatMul[Rat[img.height, opts.rows], sf]
    IN  [cell |-> <<row, col>>,
         originalX |-> RatMul[FromInt[col], scaledPieceWidth],
         originalY |-> RatMul[FromInt[row], scaledPieceHeight],
         currentX |-> RatMul[FromInt[col], scaledPieceWidth],
         currentY |-> RatMul[FromInt[row], scaledPieceHeight],
         width |-> scaledPieceWidth,
         height |-> scaledPieceHeight,
         solved |-> TRUE,
         rotation |-> FromInt[0]]

\* the piece pushed for grid cell (row, col)
NewPiece(opts, img, sf, row, col) ==
    LET scaledPieceWidth == RatMul[Rat[img.width, opts.cols], sf]
        scaledPieceHeight == RatMul[Rat[img.height, opts.rows], sf]
    IN  [cell |-> <<row, col>>,
         originalX |-> RatMul[FromInt[col], scaledPieceWidth],
         originalY |-> RatMul[FromInt[row], scaledPieceHeight],
         currentX |-> RatMul[FromInt[col], scaledPieceWidth],
         currentY |-> RatMul[FromInt[row], scaledPieceHeight],
         width |-> scaledPieceWidth,
         height |-> scaledPieceHeight,
         solved |-> FALSE,
         rotation |-> FromInt[0]]

\* cells 0 .. k-1 in row-major order; a cell in noCtx gets no 2d context and
\* is skipped (line 146)
RECURSIVE PiecesUpTo(_, _, _, _, _)
PiecesUpTo(opts, img, sf, noCtx, k) ==
    IF k = 0 THEN <<>>
    ELSE LET row == (k - 1) \div opts.cols
             col == (k - 1) % opts.cols
             before == PiecesUpTo(opts, img, sf, noCtx, k - 1)
         IN  IF <<row, col>> \in noCtx THEN before
             ELSE Append(before, NewPiece(opts, img, sf, row, col))

createPuzzlePieces(opts, img, sf, noCtx) ==
    PiecesUpTo(opts, img, sf, noCtx, opts.rows * opts.cols)

\* piece i (1-based position in this.pieces) consumes three Math.random()
\* values of draw sequence s, starting with its first
shufflePieces(ps, cv, opts, s) ==
    [i \in 1..Len(ps) |->
        LET ux == RandomDraw(s, 3 * (i - 1))
            uy == RandomDraw(s, 3 * (i - 1) + 1)
            ur == RandomDraw(s, 3 * (i - 1) + 2)
        IN  [ps[i] EXCEPT
               !.currentX = RatSub[RatMul[ux, Rat[3 * cv.width, 2]], Rat[cv.width, 4]],
               !.currentY = RatSub[RatMul[uy, Rat[3 * cv.height, 2]], Rat[cv.height, 4]],
               !.rotation = RatMul[RatSub[RatMul[ur, FromInt[2]], FromInt[1]],
                                   FromInt[opts.maxRotation]]]]

\* ------------------------------------------------------- solving schedule
\* (mutant) a[i] = a[j] without the exchange
Swap_Overwrites(a, i, j) == [a EXCEPT ![i + 1] = a[j + 1]]

\* [a[i], a[j]] = [a[j], a[i]] on a 0-based array held as a sequence
Swap(a, i, j) == [a EXCEPT ![i + 1] = a[j + 1], ![j + 1] = a[i + 1]]

\* the loop of lines 81-84 from index i down to 1; js[i] is the value of
\* Math.floor(Math.random() * (i + 1)) drawn at index i
RECURSIVE ShuffleFrom(_, _, _)
ShuffleFrom(a, i, js) ==
    IF i <= 0 THEN a ELSE ShuffleFrom(Swap(a, i, js[i]), i - 1, js)

\* all possible draws of the loop for an array of length len
ShuffleDraws(len) ==
    {js \in [1..(len - 1) -> 0..(len - 1)] : \A i \in 1..(len - 1) : js[i] <= i}

\* the draws the loop makes when Math.random() follows draw sequence s and
\* `used` values were consumed before: index i = len-1, len-2, ... takes the
\* next value u and yields Math.floor(u * (i + 1))
DrawsOfSequence(len, s, used) ==
    [i \in 1..(len - 1) |->
        RatFloor[RatMul[RandomDraw(s, used + (len - 1 - i)), FromInt[i + 1]]]]

setupSolvingOrder(len, js) == ShuffleFrom([i \in 1..len |-> i - 1], len - 1, js)

\* line 86; a division by zero pieces gives Infinity
PieceMoveDuration(totalDuration, len) == Rat[totalDuration, len]

\* ---------------------------------------------------------------- drawing
easeInOutCubic(t) ==
    IF RatLess[t, Rat[1, 2]]
    THEN RatMul[FromInt[4], RatMul[t, RatMul[t, t]]]
    ELSE LET u == RatAdd[RatMul[FromInt[-2], t], FromInt[2]]
         IN  RatSub[FromInt[1], RatDiv[RatMul[u, RatMul[u, u]], FromInt[2]]]

\* one drawImage call: bitmap of a cell with its top-left corner at (x, y),
\* turned by angle degrees about its own centre
Draw(cell, x, y, angle) == [cell |-> cell, x |-> x, y |-> y, angle |-> angle]

\* lines 207-213
DrawAllPieces(ps) ==
    [i \in 1..Len(ps) |->
        IF ps[i].solved
        THEN Draw(ps[i].cell, ps[i].originalX, ps[i].originalY, FromInt[0])
        ELSE Draw(ps[i].cell, ps[i].currentX, ps[i].currentY, ps[i].rotation)]

\* (mutant) the final pass draws unsolved pieces where they are stored
DrawAllHome_AsStored(ps) ==
    [i \in 1..Len(ps) |->
        IF ps[i].solved
        THEN Draw(ps[i].cell, ps[i].originalX, ps[i].originalY, FromInt[0])
        ELSE Draw(ps[i].cell, ps[i].currentX, ps[i].currentY, ps[i].rotation)]

\* lines 243-245
DrawAllHome(ps) ==
    [i \in 1..Len(ps) |->
        Draw(ps[i].cell, ps[i].originalX, ps[i].originalY, FromInt[0])]

\* (mutant) the window of the next position is subtracted
PieceProgress_FromNextWindow(elapsed, index, duration) ==
    LET pieceElapsed == RatSub[FromInt[elapsed], RatMul[FromInt[index + 1], duration]]
    IN  RatMin[RatDiv[pieceElapsed, duration], FromInt[1]]

\* lines 218-219
PieceProgress(elapsed, index, duration) ==
    LET pieceElapsed == RatSub[FromInt[elapsed], RatMul[FromInt[index], duration]]
    IN  RatMin[RatDiv[pieceElapsed, duration], FromInt[1]]

\* lines 222-226
DrawActive(piece, easedProgress) ==
    Draw(piece.cell,
         RatAdd[piece.currentX,
                RatMul[RatSub[piece.originalX, piece.currentX], easedProgress]],
         RatAdd[piece.currentY,
                RatMul[RatSub[piece.originalY, piece.currentY], easedProgress]],
         RatAdd[piece.rotation,
                RatMul[RatSub[FromInt[0], piece.rotation], easedProgress]])

\* (mutant) > in place of >=
Completes_StrictlyAbove(p) == RatLess[FromInt[1], p]

\* line 228
Completes(p) == RatLeq[FromInt[1], p]

\* (mutant) completing a piece also moves its stored position home
MarkSolved_SnapsHome(piece) ==
    [piece EXCEPT !.solved = TRUE, !.rotation = FromInt[0],
                  !.currentX = piece.originalX, !.currentY = piece.originalY]

\* (mutant) the rotation is reset but the flag is forgotten
MarkSolved_RotationOnly(piece) == [piece EXCEPT !.rotation = FromInt[0]]

\* lines 229-230
MarkSolved(piece) == [piece EXCEPT !.solved = TRUE, !.rotation = FromInt[0]]

\* (mutant) the index skips a position
NextIndex_Skips(index) == index + 2

\* line 231
NextIndex(index) == index + 1

\* (mutant) the deadline itself still counts as running
KeepsRunning_Inclusive(elapsed, totalDuration) == elapsed <= totalDuration

\* line 235
KeepsRunning(elapsed, totalDuration) == elapsed < totalDuration

\* ------------------------------------------------------------------ Init
\* the fields as their initialisers leave them (lines 30-37), and the
\* options the caller is about to pass to the constructor (the image, a URL
\* or an element, is the input of the two constructor actions)
Init ==
    /\ \E g \in GridSizes, T \in TotalDurations, r \in MaxRotations, b \in MaxBoxes :
          options = [rows |-> g[1], cols |-> g[2], totalDuration |-> T,
                     maxRotation |-> r, maxWidth |-> b.maxWidth,
                     maxHeight |-> b.maxHeight]
    /\ image = [width |-> 0, height |-> 0]
    /\ container = <<>>
    /\ canvas = [width |-> 0, height |-> 0]
    /\ canvasDraws = <<>>
    /\ pieces = <<>>
    /\ animationFrameId = 0          \* null
    /\ animationStartTime = 0
    /\ timerText = <<>>
    /\ solvingOrder = <<>>
    /\ currentSolvingIndex = 0
    /\ pieceMoveDuration = FromInt[0]
    /\ scaleFactor = FromInt[1]
    /\ pc = "new"
    /\ initPromise = "none"
    /\ steps = <<>>
    /\ pendingFrames = {}
    /\ lastFrameTime = 0
    /\ repeats = 0
    /\ runState = "IDLE"
    /\ destroyed = FALSE
    /\ lastFrame = [t |-> 0, elapsed |-> 0, indexedAt |-> -1, scheduled |-> 0]
    /\ progress = <<>>
    /\ constructorOutcome = "none"

\* ------------------------------------------------------------- init body
\* (mutant) the schedule is built before the pieces are shuffled
InitSteps_ScheduleBeforeShuffle ==
    <<"calculateScaleFactor", "setupCanvas", "createPuzzlePieces",
      "setupSolvingOrder", "shufflePieces", "setupTimer", "startAnimation">>

\* the calls of init() after the image is available, in program order
\* (lines 62-68)
InitSteps ==
    <<"calculateScaleFactor", "setupCanvas", "createPuzzlePieces",
      "shufflePieces", "setupTimer", "setupSolvingOrder", "startAnimation">>

\* the cells of the grid, and those among them whose piece canvas gets no 2d
\* context when only the first `available` canvases do
Cells == (0..(options.rows - 1)) \X (0..(options.cols - 1))
CellsWithoutContext(available) ==
    {c \in Cells : c[1] * options.cols + c[2] >= available}

\* the part of init() after the image is available (lines 62-68), run to
\* completion in one turn of the event loop.
\*   img      the decoded image
\*   ctxOk    whether the main canvas yields a 2d context (line 123)
\*   noCtx    the cells whose piece canvas yields none (line 146)
\*   s        the Math.random() draw sequence
\*   start    performance.now() at line 196
InitBody(img, ctxOk, noCtx, s, start) ==
    LET sf == calculateScaleFactor(options, img)
        cv == setupCanvas(img, sf)
        created == createPuzzlePieces(options, img, sf, noCtx)
        shuffled == shufflePieces(created, cv, options, s)
        js == DrawsOfSequence(Len(shuffled), s, 3 * Len(shuffled))
        handle == requestAnimationFrame(pendingFrames \cup {animationFrameId})
    IN  /\ image' = img
        /\ scaleFactor' = sf
        /\ canvas' = cv
        /\ IF ~ctxOk
           THEN \* setupCanvas throws: init() rejects, nobody awaits it
                /\ pc' = "failed"
                /\ initPromise' = "rejected"
                /\ steps' = steps \o SubSeq(InitSteps, 1, 2)
                /\ UNCHANGED <<container, canvasDraws, pieces, animationFrameId,
                               animationStartTime, solvingOrder, pieceMoveDuration,
                               pendingFrames, runState, progress>>
           ELSE /\ pc' = "ready"
                /\ initPromise' = "fulfilled"
                /\ steps' = steps \o InitSteps
                /\ container' = <<"canvas", "timer">>   \* lines 126-127, 98
                /\ canvasDraws' = <<>>
                /\ pieces' = shuffled
                /\ progress' = [i \in 1..Len(shuffled) |-> FromInt[0]]
                /\ solvingOrder' = setupSolvingOrder(Len(shuffled), js)
                /\ pieceMoveDuration' = PieceMoveDuration(options.totalDuration, Len(shuffled))
                /\ animationStartTime' = start
                /\ animationFrameId' = handle
                /\ pendingFrames' = pendingFrames \cup {handle}
                /\ runState' = "RUNNING"
        /\ UNCHANGED <<options, timerText, currentSolvingIndex, lastFrameTime,
                       repeats, destroyed, lastFrame>>

\* init() from line 62 on, on every input of the model
RunInitBody ==
    \E img \in Images, ctxOk \in BOOLEAN, failures \in 0..MaxCtxFailures,
       s \in 1..MaxSeeds, start \in StartTimes(options.totalDuration) :
       /\ failures <= options.rows * options.cols
       /\ InitBody(img, ctxOk,
                   CellsWithoutContext(options.rows * options.cols - failures),
                   s, start)

\* new JigsawPuzzle(options) with an image element: init() has no await on
\* its path and runs inside the constructor
ConstructWithElement ==
    /\ pc = "new"
    /\ RunInitBody
    \* line 52: the promise of init() is dropped, a rejection included, and
    \* the constructor returns the instance
    /\ constructorOutcome' = "returned"

\* new JigsawPuzzle(options) with a URL: init() suspends at line 57
ConstructWithUrl ==
    /\ pc = "new"
    /\ pc' = "loading"
    /\ initPromise' = "pending"
    /\ constructorOutcome' = "returned"
    /\ UNCHANGED <<options, image, container, canvas, canvasDraws, pieces,
                   animationFrameId, animationStartTime, timerText,
                   solvingOrder, currentSolvingIndex, pieceMoveDuration,
                   scaleFactor, steps, pendingFrames, lastFrameTime, repeats,
                   runState, destroyed, lastFrame, progress>>

\* image.onload: loadImage resolves and init() resumes
ImageLoaded ==
    /\ pc = "loading"
    /\ RunInitBody
    /\ UNCHANGED constructorOutcome

\* image.onerror: loadImage rejects, and so does init()
ImageError ==
    /\ pc = "loading"
    /\ pc' = "failed"
    /\ initPromise' = "rejected"
    /\ UNCHANGED <<options, image, container, canvas, canvasDraws, pieces,
                   animationFrameId, animationStartTime, timerText,
                   solvingOrder, currentSolvingIndex, pieceMoveDuration,
                   scaleFactor, steps, pendingFrames, lastFrameTime, repeats,
                   runState, destroyed, lastFrame, progress,
                   constructorOutcome>>

\* ----------------------------------------------------------------- animate
\* the host serves frame request id with timestamp currentTime (lines 200-247)
animate(id, currentTime) ==
    LET elapsed == currentTime - animationStartTime
        totalDuration == options.totalDuration
        active == currentSolvingIndex < Len(solvingOrder)
        currentPieceIndex == solvingOrder[currentSolvingIndex + 1]
        piece == pieces[currentPieceIndex + 1]
        served == pendingFrames \ {id}
        again == KeepsRunning(elapsed, totalDuration)
        handle == requestAnimationFrame(served \cup {animationFrameId})
    IN  \* the locals of the method, each computed once
        \E p \in {PieceProgress(elapsed, currentSolvingIndex, pieceMoveDuration)} :
        \E firstPass \in {DrawAllPieces(pieces)} :
        \E secondPass \in {IF active
                           THEN Append(firstPass, DrawActive(piece, easeInOutCubic(p)))
                           ELSE firstPass} :
        \E done \in {active /\ Completes(p)} :
        \E pieces1 \in {IF done
                        THEN [pieces EXCEPT ![currentPieceIndex + 1] = MarkSolved(piece)]
                        ELSE pieces} :
        /\ pieces' = pieces1
        /\ currentSolvingIndex' =
              IF done THEN NextIndex(currentSolvingIndex) ELSE currentSolvingIndex
        /\ progress' = IF active
                       THEN [progress EXCEPT ![currentPieceIndex + 1] = p]
                       ELSE progress
        /\ IF again
           THEN /\ timerText' = TimerString(totalDuration, elapsed)
                /\ canvasDraws' = secondPass
                /\ animationFrameId' = handle
                /\ pendingFrames' = served \cup {handle}
                /\ runState' = runState
           ELSE /\ timerText' = TimerString(totalDuration, totalDuration)
                /\ canvasDraws' = DrawAllHome(pieces1)
                /\ animationFrameId' = animationFrameId
                /\ pendingFrames' = IF animationFrameId # 0
                                    THEN served \ {animationFrameId}
                                    ELSE served
                /\ runState' = "FINISHED"
        /\ lastFrame' = [t |-> currentTime,
                         elapsed |-> elapsed,
                         indexedAt |-> IF active THEN currentSolvingIndex ELSE -1,
                         scheduled |-> IF again THEN 1 ELSE 0]
        /\ UNCHANGED <<options, image, container, canvas, animationStartTime,
                       solvingOrder, pieceMoveDuration, scaleFactor, pc,
                       initPromise, steps, destroyed, constructorOutcome>>

\* the host runs the callback of a pending request; its timestamps never
\* go back
FrameAt(id, t) ==
    /\ id \in pendingFrames
    /\ t >= lastFrameTime
    /\ t > lastFrameTime \/ repeats < MaxRepeat
    /\ lastFrameTime' = t
    /\ repeats' = IF t > lastFrameTime THEN 0 ELSE repeats + 1
    /\ animate(id, t)

Frame ==
    \E id \in pendingFrames, t \in FrameTimes(options.totalDuration) : FrameAt(id, t)

\* ----------------------------------------------------------------- destroy
\* (mutant) the container is emptied but the frame request is not cancelled
destroy_KeepsRequest ==
    /\ pc # "new"
    /\ container' = <<>>
    /\ destroyed' = TRUE
    /\ UNCHANGED <<options, image, canvas, canvasDraws, pieces,
                   animationFrameId, animationStartTime, timerText, solvingOrder,
                   currentSolvingIndex, pieceMoveDuration, scaleFactor, pc,
                   initPromise, steps, pendingFrames, lastFrameTime, repeats,
                   runState, lastFrame, progress, constructorOutcome>>

\* lines 253-258; callable once the constructor has returned
destroy ==
    /\ pc # "new"
    /\ pendingFrames' = IF animationFrameId # 0
                        THEN pendingFrames \ {animationFrameId}
                        ELSE pendingFrames
    /\ container' = <<>>
    /\ destroyed' = TRUE
    /\ UNCHANGED <<options, image, canvas, canvasDraws, pieces,
                   animationFrameId, animationStartTime, timerText, solvingOrder,
                   currentSolvingIndex, pieceMoveDuration, scaleFactor, pc,
                   initPromise, steps, lastFrameTime, repeats, runState,
                   lastFrame, progress, constructorOutcome>>

Next ==
    \/ ConstructWithElement
    \/ ConstructWithUrl
    \/ ImageLoaded
    \/ ImageError
    \/ Frame
    \/ destroy

Spec == Init /\ [][Next]_vars

\* ------------------------------------------------- fair frame delivery
\* a frame whose timestamp is later than the previous one's
FrameLater ==
    \E id \in pendingFrames, t \in FrameTimes(options.totalDuration) :
       t > lastFrameTime /\ FrameAt(id, t)

\* the host keeps serving a pending frame request, and its clock advances
LiveSpec == Init /\ [][Next]_vars /\ WF_vars(FrameLater)

\* ------------------------------------- frames that skip no piece window
\* the window [k * pieceMoveDuration, (k+1) * pieceMoveDuration) an elapsed
\* time lies in; every time from totalDuration on counts as window N
WindowOf(elapsed) ==
    LET k == RatFloor[RatDiv[FromInt[elapsed], pieceMoveDuration]]
    IN  IF k < Len(pieces) THEN k ELSE Len(pieces)

\* the window of the latest frame, -1 before the first frame (a frame that
\* has run either requested the next one or finished the run)
LastWindow ==
    IF lastFrame.scheduled = 1 \/ runState = "FINISHED"
    THEN WindowOf(lastFrame.elapsed)
    ELSE -1

\* the host serves a frame at or after animationStartTime that lies in the
\* window of the previous frame or in the next one: the first frame in
\* window 0, and no window left without a frame
FrameInWindows ==
    \E id \in pendingFrames, t \in FrameTimes(options.totalDuration) :
       /\ t >= animationStartTime
       /\ WindowOf(t - animationStartTime) <= LastWindow + 1
       /\ FrameAt(id, t)

NextWindows ==
    \/ ConstructWithElement
    \/ ConstructWithUrl
    \/ ImageLoaded
    \/ ImageError
    \/ FrameInWindows
    \/ destroy

WindowSpec == Init /\ [][NextWindows]_vars

\* ------------------------------------------- the scheduler on its own
\* an engine inside init(), between shufflePieces and setupSolvingOrder
InitOrder ==
    \E g \in GridSizes, T \in TotalDurations, r \in MaxRotations, b \in MaxBoxes,
       img \in Images, s \in 1..MaxSeeds :
       LET opts == [rows |-> g[1], cols |-> g[2], totalDuration |-> T,
                    maxRotation |-> r, maxWidth |-> b.maxWidth,
                    maxHeight |-> b.maxHeight]
           sf == calculateScaleFactor(opts, img)
           cv == setupCanvas(img, sf)
       IN  /\ options = opts
           /\ image = img
           /\ scaleFactor = sf
           /\ canvas = cv
           /\ pieces = shufflePieces(createPuzzlePieces(opts, img, sf, {}), cv, opts, s)
           /\ container = <<"canvas", "timer">>
           /\ canvasDraws = <<>>
           /\ animationFrameId = 0
           /\ animationStartTime = 0
           /\ timerText = <<>>
           /\ solvingOrder = <<>>
           /\ currentSolvingIndex = 0
           /\ pieceMoveDuration = FromInt[0]
           /\ pc = "scheduling"
           /\ initPromise = "pending"
           /\ steps = SubSeq(InitSteps, 1, 5)
           /\ pendingFrames = {}
           /\ lastFrameTime = 0
           /\ repeats = 0
           /\ runState = "IDLE"
           /\ destroyed = FALSE
           /\ lastFrame = [t |-> 0, elapsed |-> 0, indexedAt |-> -1, scheduled |-> 0]
           /\ progress = [i \in 1..Len(pieces) |-> FromInt[0]]
           /\ constructorOutcome = "none"

\* setupSolvingOrder() (lines 78-87) on any draws Math.random() can make
ScheduleOrder ==
    /\ pc = "scheduling"
    /\ \E js \in ShuffleDraws(Len(pieces)) :
          solvingOrder' = setupSolvingOrder(Len(pieces), js)
    /\ pieceMoveDuration' = PieceMoveDuration(options.totalDuration, Len(pieces))
    /\ pc' = "scheduled"
    /\ steps' = Append(steps, "setupSolvingOrder")
    /\ UNCHANGED <<options, image, container, canvas, canvasDraws, pieces,
                   animationFrameId, animationStartTime, timerText,
                   currentSolvingIndex, scaleFactor, initPromise, pendingFrames,
                   lastFrameTime, repeats, runState, destroyed, lastFrame,
                   progress, constructorOutcome>>

NextOrder == ScheduleOrder

OrderSpec == InitOrder /\ [][NextOrder]_vars

\* ------------------------------------------- the countdown on its own
\* the remaining times updateTimer is applied to: every whole second of
\* 0..MaxMinutes minutes, at its first and at its last millisecond
RemainingSamples ==
    {m * 60000 + sec * 1000 + ms : m \in 0..MaxMinutes, sec \in 0..59, ms \in {0, 999}}

\* the elapsed times that leave those remaining times, and one past the end
ElapsedSamples(T) == {T - r : r \in RemainingSamples} \cup {T + 1000}

\* an engine whose timer element exists and whose fields are otherwise as
\* the initialisers leave them
InitTimer ==
    /\ \E T \in TotalDurations :
          options = [rows |-> 1, cols |-> 1, totalDuration |-> T,
                     maxRotation |-> 360, maxWidth |-> 8, maxHeight |-> 8]
    /\ image = [width |-> 0, height |-> 0]
    /\ container = <<"timer">>
    /\ canvas = [width |-> 0, height |-> 0]
    /\ canvasDraws = <<>>
    /\ pieces = <<>>
    /\ animationFrameId = 0
    /\ animationStartTime = 0
    /\ timerText = <<>>
    /\ solvingOrder = <<>>
    /\ currentSolvingIndex = 0
    /\ pieceMoveDuration = FromInt[0]
    /\ scaleFactor = FromInt[1]
    /\ pc = "timing"
    /\ initPromise = "none"
    /\ steps = <<"setupTimer">>
    /\ pendingFrames = {}
    /\ lastFrameTime = 0
    /\ repeats = 0
    /\ runState = "IDLE"
    /\ destroyed = FALSE
    /\ lastFrame = [t |-> 0, elapsed |-> 0, indexedAt |-> -1, scheduled |-> 0]
    /\ progress = <<>>
    /\ constructorOutcome = "none"

\* updateTimer(elapsed) (lines 101-106)
updateTimer ==
    /\ pc = "timing"
    /\ \E elapsed \in ElapsedSamples(options.totalDuration) :
          /\ timerText' = TimerString(options.totalDuration, elapsed)
          /\ lastFrame' = [lastFrame EXCEPT !.elapsed = elapsed]
    /\ UNCHANGED <<options, image, container, canvas, canvasDraws, pieces,
                   animationFrameId, animationStartTime, solvingOrder,
                   currentSolvingIndex, pieceMoveDuration, scaleFactor, pc,
                   initPromise, steps, pendingFrames, lastFrameTime, repeats,
                   runState, destroyed, progress, constructorOutcome>>

NextTimer == updateTimer

TimerSpec == InitTimer /\ [][NextTimer]_vars

\* ------------------------------------------- the scale factor on its own
\* an engine inside init() with its image assigned (line 59), before
\* calculateScaleFactor; image and maximum box of any dimensions 1..MaxDim
InitScale ==
    /\ \E w \in 1..MaxDim, h \in 1..MaxDim, mw \in 1..MaxDim, mh \in 1..MaxDim :
          /\ options = [rows |-> 1, cols |-> 1, totalDuration |-> 4000,
                        maxRotation |-> 360, maxWidth |-> mw, maxHeight |-> mh]
          /\ image = [width |-> w, height |-> h]
    /\ container = <<>>
    /\ canvas = [width |-> 0, height |-> 0]
    /\ canvasDraws = <<>>
    /\ pieces = <<>>
    /\ animationFrameId = 0
    /\ animationStartTime = 0
    /\ timerText = <<>>
    /\ solvingOrder = <<>>
    /\ currentSolvingIndex = 0
    /\ pieceMoveDuration = FromInt[0]
    /\ scaleFactor = FromInt[1]
    /\ pc = "scaling"
    /\ initPromise = "pending"
    /\ steps = <<>>
    /\ pendingFrames = {}
    /\ lastFrameTime = 0
    /\ repeats = 0
    /\ runState = "IDLE"
    /\ destroyed = FALSE
    /\ lastFrame = [t |-> 0, elapsed |-> 0, indexedAt |-> -1, scheduled |-> 0]
    /\ progress = <<>>
    /\ constructorOutcome = "none"

\* calculateScaleFactor() and the sizing of the canvas in setupCanvas()
\* (lines 71-76, 119-121)
ScaleAndSize ==
    /\ pc = "scaling"
    /\ scaleFactor' = calculateScaleFactor(options, image)
    /\ canvas' = setupCanvas(image, calculateScaleFactor(options, image))
    /\ pc' = "scaled"
    /\ steps' = steps \o SubSeq(InitSteps, 1, 2)
    /\ UNCHANGED <<options, image, container, canvasDraws, pieces,
                   animationFrameId, animationStartTime, timerText,
                   solvingOrder, currentSolvingIndex, pieceMoveDuration,
                   initPromise, pendingFrames, lastFrameTime, repeats,
                   runState, destroyed, lastFrame, progress,
                   constructorOutcome>>

NextScale == ScaleAndSize

ScaleSpec == InitScale /\ [][NextScale]_vars

\* ======================================================== properties
NumPieces == Len(pieces)
\* the piece at position k (0-based) of the solving order
PieceAt(k) == pieces[solvingOrder[k + 1] + 1]
ProgressAt(k) == progress[solvingOrder[k + 1] + 1]
StrictlyBetween0And1(q) == RatLess[FromInt[0], q] /\ RatLess[q, FromInt[1]]
ActivePieces == {i \in 1..Len(progress) : StrictlyBetween0And1(progress[i])}
SolvedPieces == {i \in 1..Len(pieces) : pieces[i].solved}
ZeroText == <<"0", ":", "0", "0">>
AtHome(d, piece) ==
    /\ d.cell = piece.cell
    /\ d.x = piece.originalX
    /\ d.y = piece.originalY
    /\ d.angle = FromInt[0]

\* C1: in every reachable state the pieces at solving-order positions before
\* currentSolvingIndex are solved, those at or after it are unsolved, and at
\* most one piece has a progress strictly between 0 and 1.
C1_SolvedPrefixOneActive ==
    /\ Len(solvingOrder) = NumPieces
    /\ \A k \in 0..(Len(solvingOrder) - 1) :
          PieceAt(k).solved <=> (k < currentSolvingIndex)
    /\ Cardinality(ActivePieces) <= 1

C1_Witness ==
    /\ NumPieces = 4
    /\ currentSolvingIndex = 2
    /\ PieceAt(0).solved /\ PieceAt(1).solved /\ ~PieceAt(3).solved
    /\ StrictlyBetween0And1(ProgressAt(2))

\* C2: once a frame with elapsed >= totalDuration has been processed, every
\* piece has solved = true, is shown at its home coordinate with rotation 0
\* (and stores rotation 0), and the countdown shows "0:00".
C2_AllSolvedAfterDeadline ==
    runState = "FINISHED" =>
        /\ \A i \in 1..NumPieces :
              /\ pieces[i].solved
              /\ pieces[i].rotation = FromInt[0]
              /\ AtHome(canvasDraws[i], pieces[i])
        /\ timerText = ZeroText

\* C3: after destroy() no frame callback executes, no frame request is
\* pending or made, and the container stays empty.
C3_DestroyIsFinal ==
    [][destroyed => (~Frame /\ pendingFrames' = {} /\ container' = <<>>)]_vars

\* C4: a frame with elapsed < totalDuration requests exactly one next frame;
\* a frame with elapsed >= totalDuration requests none and finishes the run;
\* once finished the run stays finished, no frame callback executes and no
\* piece or index changes; and when frames keep arriving with advancing
\* timestamps a running engine finishes (unless it is destroyed).
C4_RunningThenFinished ==
    /\ [][/\ Frame =>
                IF lastFrame'.elapsed < options.totalDuration
                THEN /\ Cardinality(pendingFrames' \ (pendingFrames \ {animationFrameId})) = 1
                     /\ animationFrameId' \in pendingFrames'
                     /\ runState' = runState
                ELSE /\ pendingFrames' \subseteq pendingFrames
                     /\ animationFrameId' \notin pendingFrames'
                     /\ runState' = "FINISHED"
          /\ runState = "FINISHED" =>
                (/\ ~Frame
                 /\ runState' = "FINISHED"
                 /\ pendingFrames' = {}
                 /\ pieces' = pieces
                 /\ currentSolvingIndex' = currentSolvingIndex)]_vars
    /\ (runState = "RUNNING") ~> (runState = "FINISHED" \/ destroyed)

C4_Witness ==
    /\ runState = "FINISHED"
    /\ ~destroyed
    /\ lastFrame.elapsed >= options.totalDuration
    /\ pendingFrames = {}

\* C5: a piece's solved flag is false when the piece is created and, once
\* true, is never false again, whatever step is taken.
C5_SolvedIsPermanent ==
    [][/\ (pieces = <<>> /\ pieces' # <<>>) =>
             \A i \in 1..Len(pieces') : ~pieces'[i].solved
       /\ pieces # <<>> =>
             /\ Len(pieces') = Len(pieces)
             /\ \A i \in 1..Len(pieces) : pieces[i].solved => pieces'[i].solved]_vars

C5_Witness ==
    /\ destroyed
    /\ SolvedPieces # {}
    /\ Cardinality(SolvedPieces) < NumPieces

\* C6: currentSolvingIndex starts at 0, never decreases, grows by at most 1
\* per step, stays within 0..N, and solvingOrder is only read at positions
\* below N.
C6_IndexMonotoneBounded ==
    /\ currentSolvingIndex = 0
    /\ [](currentSolvingIndex \in 0..NumPieces)
    /\ [](lastFrame.indexedAt < Len(solvingOrder))
    /\ [][currentSolvingIndex' \in {currentSolvingIndex, currentSolvingIndex + 1}]_vars

C6_Witness ==
    /\ NumPieces >= 3
    /\ currentSolvingIndex = NumPieces
    /\ lastFrame.indexedAt = NumPieces - 1

\* C7: whatever the random draws, setupSolvingOrder leaves solvingOrder a
\* permutation of 0..N-1: N entries, each index exactly once.
C7_OrderIsPermutation ==
    pc = "scheduled" =>
        /\ Len(solvingOrder) = NumPieces
        /\ \A v \in 0..(NumPieces - 1) :
              Cardinality({k \in 1..Len(solvingOrder) : solvingOrder[k] = v}) = 1

C7_Witness ==
    /\ pc = "scheduled"
    /\ NumPieces = 4
    /\ solvingOrder = <<2, 0, 3, 1>>

\* C8: 2x2 grid, totalDuration 4000: pieceMoveDuration is 1000 and after any
\* frame at elapsed 2500 exactly the pieces at positions 0 and 1 are solved,
\* the piece at position 2 has progress 1/2 and the one at position 3 is
\* unsolved with progress 0.
C8_Scenario ==
    (/\ pc = "ready"
     /\ options.rows = 2 /\ options.cols = 2 /\ options.totalDuration = 4000
     /\ NumPieces = 4
     /\ runState # "IDLE"
     /\ lastFrame.elapsed = 2500)
    => /\ pieceMoveDuration = FromInt[1000]
       /\ PieceAt(0).solved /\ PieceAt(1).solved
       /\ Cardinality(SolvedPieces) = 2
       /\ ProgressAt(2) = Rat[1, 2]
       /\ ~PieceAt(3).solved /\ ProgressAt(3) = FromInt[0]

\* C9: after the frame that finishes the run the canvas shows exactly every
\* piece at its home position without rotation, in index order, and the
\* countdown shows zero, whatever currentSolvingIndex and the solved flags.
C9_FinalRedrawAtHome ==
    runState = "FINISHED" =>
        /\ Len(canvasDraws) = NumPieces
        /\ \A i \in 1..NumPieces : AtHome(canvasDraws[i], pieces[i])
        /\ timerText = ZeroText

C9_Witness ==
    /\ runState = "FINISHED"
    /\ NumPieces = 4
    /\ currentSolvingIndex < NumPieces
    /\ \E i \in 1..NumPieces :
          /\ ~pieces[i].solved
          /\ pieces[i].currentX # pieces[i].originalX
          /\ pieces[i].rotation # FromInt[0]

\* reading the countdown text back: characters to number
DigitValue(c) ==
    CASE c = "0" -> 0 [] c = "1" -> 1 [] c = "2" -> 2 [] c = "3" -> 3
      [] c = "4" -> 4 [] c = "5" -> 5 [] c = "6" -> 6 [] c = "7" -> 7
      [] c = "8" -> 8 [] c = "9" -> 9
RECURSIVE StringToNat(_)
StringToNat(cs) ==
    IF cs = <<>> THEN 0
    ELSE 10 * StringToNat(SubSeq(cs, 1, Len(cs) - 1)) + DigitValue(cs[Len(cs)])
ColonAt(text) == CHOOSE k \in 1..Len(text) : text[k] = ":"
\* the seconds a countdown text stands for
ShownSeconds(text) ==
    60 * StringToNat(SubSeq(text, 1, ColonAt(text) - 1))
       + StringToNat(SubSeq(text, ColonAt(text) + 1, Len(text)))

\* C10: the time shown by the countdown never increases from one frame to
\* the next, is never below 0 and has two seconds digits below 60, and is
\* "0:00" after every frame with elapsed >= totalDuration.
C10_CountdownNeverIncreases ==
    /\ [][(timerText # <<>> /\ timerText' # <<>>) =>
             ShownSeconds(timerText') <= ShownSeconds(timerText)]_vars
    /\ [](timerText # <<>> =>
             /\ ShownSeconds(timerText) >= 0
             /\ Len(timerText) - ColonAt(timerText) = 2
             /\ StringToNat(SubSeq(timerText, ColonAt(timerText) + 1, Len(timerText))) < 60
             /\ 1000 * ShownSeconds(timerText)
                   <= Max(0, options.totalDuration - lastFrame.elapsed))
    /\ [](lastFrame.elapsed >= options.totalDuration => timerText = ZeroText)

C10_Witness ==
    /\ options.totalDuration = 120000
    /\ runState = "RUNNING"
    /\ timerText = <<"0", ":", "4", "5">>

\* the remaining time of the latest updateTimer call (line 102)
Remaining == Max(0, options.totalDuration - lastFrame.elapsed)
MinutesText(text) == SubSeq(text, 1, ColonAt(text) - 1)
SecondsText(text) == SubSeq(text, ColonAt(text) + 1, Len(text))
Colons(text) == {k \in 1..Len(text) : text[k] = ":"}

\* C11: for every whole remaining time r >= 0 the countdown text is the
\* decimal floor(r / 60000), a colon, and floor((r mod 60000) / 1000) as
\* exactly two digits below 60; 125000 gives "2:05", 0 gives "0:00" and
\* 59999 gives "0:59".
C11_FormatterValues ==
    timerText # <<>> =>
        /\ Cardinality(Colons(timerText)) = 1
        /\ StringToNat(MinutesText(timerText)) = Remaining \div 60000
        /\ MinutesText(timerText) = NatToString(Remaining \div 60000)
        /\ StringToNat(SecondsText(timerText)) = (Remaining % 60000) \div 1000
        /\ Len(SecondsText(timerText)) = 2
        /\ StringToNat(SecondsText(timerText)) \in 0..59
        /\ Remaining = 125000 => timerText = <<"2", ":", "0", "5">>
        /\ Remaining = 0 => timerText = <<"0", ":", "0", "0">>
        /\ Remaining = 59999 => timerText = <<"0", ":", "5", "9">>

C11_Witness ==
    /\ pc = "timing"
    /\ Remaining = 59999
    /\ timerText = <<"0", ":", "5", "9">>

\* where a step of init() stands in the record of executed steps
Positions(step) == {k \in 1..Len(steps) : steps[k] = step}
PositionOf(step) == CHOOSE k \in Positions(step) : TRUE
ScheduleBuilt == Positions("setupSolvingOrder") # {}
OrderedSteps ==
    <<"calculateScaleFactor", "createPuzzlePieces", "shufflePieces",
      "setupSolvingOrder", "startAnimation">>

\* C12: no step of init() ever runs twice; once init() has completed, scale
\* computation, slicing, shuffling, scheduling and the start of the animation
\* have each run exactly once and in that order; no frame callback runs
\* before the schedule is built; and once built the schedule (solvingOrder
\* and pieceMoveDuration) never changes and no init step runs again.
C12_InitOrder ==
    /\ [](\A k \in 1..Len(steps) : Cardinality(Positions(steps[k])) = 1)
    /\ [](pc = "ready" =>
             /\ \A k \in 1..Len(OrderedSteps) :
                   Cardinality(Positions(OrderedSteps[k])) = 1
             /\ \A k \in 1..(Len(OrderedSteps) - 1) :
                   PositionOf(OrderedSteps[k]) < PositionOf(OrderedSteps[k + 1]))
    /\ [][/\ Frame => ScheduleBuilt
          /\ ScheduleBuilt =>
                /\ solvingOrder' = solvingOrder
                /\ pieceMoveDuration' = pieceMoveDuration
                /\ steps' = steps]_vars

C12_Witness ==
    /\ pc = "ready"
    /\ NumPieces = 4
    /\ Len(steps) = 7
    /\ solvingOrder # <<0, 1, 2, 3>>
    /\ lastFrame.scheduled = 1
    /\ \E i \in 1..NumPieces : pieces[i].currentX # pieces[i].originalX

\* the caller of `new JigsawPuzzle(...)` learns of a failed init() when the
\* constructor throws, or when it is handed the promise that rejected
ErrorSurfaced ==
    \/ constructorOutcome = "threw"
    \/ constructorOutcome = "promise" /\ initPromise = "rejected"

\* C13: when the image fails to load or the main canvas yields no 2d
\* context, initialization stops: no piece exists, no solving schedule is
\* built, no frame request is ever made, no init step runs again, and the
\* error has reached the caller that constructed the engine.
C13_FailureIsTerminalAndSurfaced ==
    /\ [](pc = "failed" =>
             /\ initPromise = "rejected"
             /\ pieces = <<>>
             /\ solvingOrder = <<>>
             /\ ~ScheduleBuilt
             /\ animationFrameId = 0
             /\ pendingFrames = {}
             /\ runState = "IDLE"
             /\ ErrorSurfaced)
    /\ [][pc = "failed" =>
             /\ pc' = "failed"
             /\ steps' = steps
             /\ pendingFrames' = {}]_vars

\* C14: for positive whole image and maximum box dimensions the scale factor
\* is the least of maxWidth/width, maxHeight/height and 1, lies in (0, 1],
\* and neither the scaled image nor the canvas sized from it exceeds the
\* maximum box.
C14_ScaleFactorFits ==
    pc = "scaled" =>
        LET widthRatio == Rat[options.maxWidth, image.width]
            heightRatio == Rat[options.maxHeight, image.height]
            scaledWidth == RatMul[FromInt[image.width], scaleFactor]
            scaledHeight == RatMul[FromInt[image.height], scaleFactor]
        IN  /\ scaleFactor \in {widthRatio, heightRatio, FromInt[1]}
            /\ RatLeq[scaleFactor, widthRatio]
            /\ RatLeq[scaleFactor, heightRatio]
            /\ RatLess[FromInt[0], scaleFactor]
            /\ RatLeq[scaleFactor, FromInt[1]]
            /\ RatLeq[scaledWidth, FromInt[options.maxWidth]]
            /\ RatLeq[scaledHeight, FromInt[options.maxHeight]]
            /\ canvas.width <= options.maxWidth
            /\ canvas.height <= options.maxHeight

C14_Witness ==
    /\ pc = "scaled"
    /\ image = [width |-> 4, height |-> 3]
    /\ options.maxWidth = 2 /\ options.maxHeight = 3
    /\ scaleFactor = Rat[1, 2]
    /\ canvas = [width |-> 2, height |-> 1]

\* the pieces as shufflePieces left them, for the draw sequence s and the
\* number of piece canvases that got no 2d context
ScatteredPieces(s, failures) ==
    shufflePieces(createPuzzlePieces(options, image, scaleFactor,
                     CellsWithoutContext(options.rows * options.cols - failures)),
                  canvas, options, s)

\* C15: a frame callback leaves solvingOrder and pieceMoveDuration alone and
\* changes at most one piece, the one at solvingOrder[currentSolvingIndex],
\* exactly when its progress has reached 1 and only by solved = true and
\* rotation = 0; hence every piece keeps its home position and its stored
\* current position, and an unsolved piece is still exactly as shufflePieces
\* left it.
C15_FrameEffect ==
    /\ [][Frame =>
            /\ solvingOrder' = solvingOrder
            /\ pieceMoveDuration' = pieceMoveDuration
            /\ Len(pieces') = Len(pieces)
            /\ Cardinality({i \in 1..Len(pieces) : pieces'[i] # pieces[i]}) <= 1
            /\ \A i \in 1..Len(pieces) :
                  \/ pieces'[i] = pieces[i]
                  \/ /\ currentSolvingIndex < Len(solvingOrder)
                     /\ i = solvingOrder[currentSolvingIndex + 1] + 1
                     /\ RatLeq[FromInt[1], progress'[i]]
                     /\ pieces'[i] = [pieces[i] EXCEPT !.solved = TRUE,
                                                       !.rotation = FromInt[0]]
            /\ (/\ currentSolvingIndex < Len(solvingOrder)
                /\ RatLeq[FromInt[1], progress'[solvingOrder[currentSolvingIndex + 1] + 1]])
               => pieces'[solvingOrder[currentSolvingIndex + 1] + 1].solved]_vars
    /\ [](pc = "ready" =>
             \E s \in 1..MaxSeeds, failures \in 0..MaxCtxFailures :
                /\ failures <= options.rows * options.cols
                /\ LET scattered == ScatteredPieces(s, failures)
                   IN  /\ Len(scattered) = NumPieces
                       /\ \A i \in 1..NumPieces :
                             IF pieces[i].solved
                             THEN pieces[i] = [scattered[i] EXCEPT
                                                 !.solved = TRUE,
                                                 !.rotation = FromInt[0]]
                             ELSE pieces[i] = scattered[i])

C15_Witness ==
    /\ NumPieces = 4
    /\ currentSolvingIndex = 2
    /\ lastFrame.indexedAt = 1
    /\ \E i \in 1..NumPieces :
          /\ pieces[i].solved
          /\ pieces[i].rotation = FromInt[0]
          /\ pieces[i].currentX # pieces[i].originalX
    /\ \E i \in 1..NumPieces :
          /\ ~pieces[i].solved
          /\ pieces[i].rotation # FromInt[0]

\* the start of the window of solving-order position k
WindowStart(k) == RatMul[FromInt[k], pieceMoveDuration]

\* C16: frame timestamps never go back; after every frame whose timestamp is
\* at or after animationStartTime and on which a piece was active, the
\* progress computed for that piece lies in [0, 1], and elapsed was at least
\* currentSolvingIndex * pieceMoveDuration.
C16_ProgressInUnitInterval ==
    (/\ runState # "IDLE"
     /\ lastFrame.indexedAt >= 0
     /\ lastFrame.t >= animationStartTime)
    => /\ RatLeq[FromInt[0], ProgressAt(lastFrame.indexedAt)]
       /\ RatLeq[ProgressAt(lastFrame.indexedAt), FromInt[1]]
       /\ RatLeq[WindowStart(lastFrame.indexedAt), FromInt[lastFrame.elapsed]]

C16_Witness ==
    /\ NumPieces = 4
    /\ lastFrame.t >= animationStartTime
    /\ lastFrame.indexedAt = 1
    /\ RatLeq[WindowStart(3), FromInt[lastFrame.elapsed]]
    /\ ProgressAt(1) = FromInt[1]

\* a frame callback has run: it either requested the next frame or finished
FrameHasRun == lastFrame.scheduled = 1 \/ runState = "FINISHED"
Min(a, b) == IF a < b THEN a ELSE b

\* C17: the piece at solving-order position k is never marked solved on a
\* frame with elapsed < (k+1) * pieceMoveDuration and is never the piece
\* being interpolated on a frame with elapsed < k * pieceMoveDuration;
\* pieces become solved in solving order, and after a frame at elapsed e at
\* most min(N, floor(e / pieceMoveDuration)) pieces are solved.
C17_WindowsRespected ==
    /\ [][\A k \in 0..(Len(solvingOrder) - 1) :
            (Len(pieces) = Len(solvingOrder) /\ ~PieceAt(k).solved /\ PieceAt(k)'.solved)
            => /\ RatLeq[WindowStart(k + 1), FromInt[lastFrame'.elapsed]]
               /\ \A j \in 0..(k - 1) : PieceAt(j).solved]_vars
    /\ []((FrameHasRun /\ lastFrame.indexedAt >= 0) =>
             RatLeq[WindowStart(lastFrame.indexedAt), FromInt[lastFrame.elapsed]])
    /\ []((FrameHasRun /\ NumPieces > 0) =>
             Cardinality(SolvedPieces)
                <= Min(NumPieces,
                       RatFloor[RatDiv[FromInt[lastFrame.elapsed], pieceMoveDuration]]))

\* C18: when the frames leave no piece window without a frame (each frame
\* anywhere within its window, early or late) and a frame with
\* elapsed >= totalDuration ends the run, then currentSolvingIndex = N and
\* every piece is solved.
C18_EveryWindowServed ==
    runState = "FINISHED" =>
        /\ Len(solvingOrder) = NumPieces
        /\ currentSolvingIndex = NumPieces
        /\ \A i \in 1..NumPieces : pieces[i].solved /\ pieces[i].rotation = FromInt[0]

C18_Witness ==
    /\ runState = "FINISHED"
    /\ NumPieces = 4
    /\ currentSolvingIndex = 4
    /\ lastFrame.elapsed > options.totalDuration
    /\ SolvedPieces = 1..4

\* C19: at most one frame request is pending at any time; a request is made
\* only by startAnimation, once, with none pending, and by a frame callback
\* whose own request was the only one pending and has been consumed; none
\* is pending once the run has finished, and none is pending, then or later,
\* once destroy() has been called during the run.
C19_AtMostOnePending ==
    /\ [](Cardinality(pendingFrames) <= 1)
    /\ [](runState = "FINISHED" => pendingFrames = {})
    /\ [][/\ (pendingFrames' \ pendingFrames # {}) =>
                \/ /\ pendingFrames = {}
                   /\ runState = "IDLE" /\ runState' = "RUNNING"
                   /\ Positions("startAnimation") = {}
                   /\ steps'[Len(steps')] = "startAnimation"
                \/ /\ Cardinality(pendingFrames) = 1
                   /\ pendingFrames' \cap pendingFrames = {}
                   /\ Frame
          /\ (destroy /\ runState = "RUNNING") => pendingFrames' = {}
          /\ (destroyed /\ runState = "RUNNING" /\ pendingFrames = {}) =>
                pendingFrames' = {}]_vars

C19_Witness ==
    /\ destroyed
    /\ runState = "RUNNING"
    /\ lastFrame.scheduled = 1
    /\ animationFrameId # 0
    /\ pendingFrames = {}

====
